---- MODULE Spec2Model ----
(***************************************************************************)
(* Model of momi's Moran rate-matrix builder (momi/moran_model.py) and of  *)
(* the caching and clean-up helpers of momi/util.py: memoize,              *)
(* memoize_instance, cached_property and truncate0.                        *)
(*                                                                         *)
(* Numbers.  Matrix entries are kept as TWICE their value, so that the     *)
(* float i*(n-i)/2. stays an integer: 0.5 is 1 and -1.0 is -2.             *)
(***************************************************************************)
EXTENDS Integers, Sequences, FiniteSets, TLC

\* ------------------------------------------------------------------ bounds
MaxN == 3          \* largest lineage count passed to rate_matrix
MaxNeg == 1        \* most negative lineage count passed is -MaxNeg
MaxCalls == 2      \* calls made to the memoized rate_matrix in one run

NVals == (0 - MaxNeg)..MaxN
Formats == {"csr", "csc"}

Min2(a, b) == IF a <= b THEN a ELSE b
Max2(a, b) == IF a >= b THEN a ELSE b

\* ------------------------------------------------------------ numpy pieces
\* np.arange(k): the array 0, 1, ..., k-1 (empty when k <= 0).
arange(k) == [j \in 1..Max2(k, 0) |-> j - 1]

\* a[:-1]
SliceButLast(a) == SubSeq(a, 1, Len(a) - 1)

\* a[1:]
SliceFromOne(a) == SubSeq(a, 2, Len(a))

\* c * a for a scalar c
Scale(c, a) == [j \in DOMAIN a |-> c * a[j]]

\* ------------------------------------------------------ moran_model.py 7-8
\* i = np.arange(n + 1); diag = i * (n - i) / 2.   (held doubled)
diag_wrong_rate(n) == [j \in DOMAIN arange(n + 1) |-> arange(n + 1)[j] * (n + 1 - arange(n + 1)[j])]

diag(n) == [j \in DOMAIN arange(n + 1) |-> arange(n + 1)[j] * (n - arange(n + 1)[j])]

\* -------------------------------------------------------- moran_model.py 9
\* diags = [diag[:-1], -2 * diag, diag[1:]]
diags_list_wrong_main(n) == << SliceButLast(diag(n)), Scale(-1, diag(n)), SliceFromOne(diag(n)) >>

diags_list(n) == << SliceButLast(diag(n)), Scale(-2, diag(n)), SliceFromOne(diag(n)) >>

\* [1, 0, -1]
diags_offsets == << 1, 0, -1 >>

\* ------------------------------------------------------------ return values
\* What a call hands back: a sparse matrix, or a raised exception.
Raised(e) == [exc |-> e, format |-> "", shape |-> << 0, 0 >>, data |-> << >>]
IsRaised(r) == r.exc # ""

\* --------------------------------------------------- scipy.sparse.diags(...)
\* Called at moran_model.py 10.  Each diagonal k is laid along its offset:
\* with length = min(m + offset, n - offset, min(m, n)), the call raises
\* ValueError when length < 0 or when the diagonal is shorter than length
\* (and is not a single broadcast value); otherwise element (r, r + offset)
\* is diagonal[min(r, r + offset)].  The result is converted to the storage
\* format asked for; conversion changes the layout tag, not the values.
\* Releases of scipy differ on an offset that leaves no room for a single
\* element (length = 0, which rate_matrix(0) asks for): older ones raise
\* ValueError, newer ones accept it.  Which one is installed is fixed for a
\* run and not decided by this repository.
VARIABLE rejects_empty_diagonal

DiagLength(shape, off) == Min2(Min2(shape[1] + off, shape[2] - off), Min2(shape[1], shape[2]))

DiagElem(d, length, pos) == IF Len(d) = 1 /\ length > 1 THEN d[1] ELSE d[pos + 1]

sparse_diags(diagonals, offsets, shape, format) ==
  LET bad(k) == \/ DiagLength(shape, offsets[k]) < 0
                \/ rejects_empty_diagonal /\ DiagLength(shape, offsets[k]) = 0
                \/ /\ Len(diagonals[k]) < DiagLength(shape, offsets[k])
                   /\ Len(diagonals[k]) # 1
      entry(r, c) ==
        IF \E k \in DOMAIN offsets : offsets[k] = c - r
        THEN LET k == CHOOSE kk \in DOMAIN offsets : offsets[kk] = c - r
             IN DiagElem(diagonals[k], DiagLength(shape, offsets[k]), Min2(r, c))
        ELSE 0
  IN IF \E k \in DOMAIN offsets : bad(k)
     THEN Raised("ValueError")
     ELSE IF format \notin Formats
     THEN Raised("ValueError")
     ELSE [ exc |-> "", format |-> format, shape |-> shape,
            data |-> [r \in 0..(shape[1] - 1) |-> [c \in 0..(shape[2] - 1) |-> entry(r, c)]] ]

\* ----------------------------------------------------- moran_model.py 6-11
\* def rate_matrix(n, sparse_format="csr")
rate_matrix(n, sparse_format) ==
  sparse_diags(diags_list(n), diags_offsets, << n + 1, n + 1 >>, sparse_format)

\* ------------------------------------------------------- calling convention
\* A call passes a tuple of positional arguments and a dict of keyword
\* arguments.  A keyword is either absent (<< >>) or present (<< v >>).
Opt(S) == {<< >>} \cup {<< v >> : v \in S}

ArgTuples == {<< >>} \cup {<< n >> : n \in NVals} \cup {<< n, f >> : n \in NVals, f \in Formats}

KwDicts == [n : Opt(NVals), sparse_format : Opt(Formats)]

\* Callers do not name a parameter they already passed positionally.
CallForms ==
  {c \in [args : ArgTuples, kwargs : KwDicts] :
     /\ Len(c.args) >= 1 => c.kwargs.n = << >>
     /\ Len(c.args) >= 2 => c.kwargs.sparse_format = << >>}

\* Python's binding of (*args, **kwargs) to rate_matrix's parameters
\* (n, sparse_format="csr"), moran_model.py 6.
Bind(args, kwargs) ==
  IF \/ Len(args) > 2
     \/ Len(args) >= 1 /\ kwargs.n # << >>
     \/ Len(args) >= 2 /\ kwargs.sparse_format # << >>
     \/ Len(args) = 0 /\ kwargs.n = << >>
  THEN [exc |-> "TypeError", n |-> 0, sparse_format |-> ""]
  ELSE [exc |-> "",
        n |-> IF Len(args) >= 1 THEN args[1] ELSE kwargs.n[1],
        sparse_format |-> IF Len(args) >= 2 THEN args[2]
                          ELSE IF kwargs.sparse_format # << >> THEN kwargs.sparse_format[1]
                          ELSE "csr"]

\* obj(*args, **kwargs) for obj = rate_matrix
obj_call(args, kwargs) ==
  IF Bind(args, kwargs).exc # ""
  THEN Raised(Bind(args, kwargs).exc)
  ELSE rate_matrix(Bind(args, kwargs).n, Bind(args, kwargs).sparse_format)

\* -------------------------------------------------------------------- state
VARIABLES
  cache,      \* util.py 18: rate_matrix.cache, key tuple -> stored matrix
  computed,   \* per key: how often obj returned a result that was stored
  built,      \* the last run of rate_matrix's body: its n, format and outcome
  ret,        \* the last call of the memoized rate_matrix and what it gave
  ncalls      \* calls made so far

varsRate == << cache, computed, built, ret, ncalls, rejects_empty_diagonal >>

VARIABLES
  ocache,     \* per object: its __cache attribute (absent until first call)
  icalls,     \* per object and key: runs of the method made by __call__
  iret,       \* the last method call and what it returned
  nicalls     \* method calls made so far

varsInst == << ocache, icalls, iret, nicalls >>

VARIABLES
  odict,      \* per object: the cached_property names in its __dict__
  pcalls,     \* per object and name: runs of func since the last deletion
  pret,       \* the last attribute operation and its outcome
  evals       \* runs of cached_property functions so far

varsProp == << odict, pcalls, pret, evals >>

VARIABLES
  x,          \* the array the caller holds; truncate0 changes it in place
  tr          \* the last call of truncate0: arguments, input and outcome;
              \* again: the call before it had the same strict and tol and
              \* returned, so this call ran on that call's result

varsTrunc == << x, tr >>

vars == << varsRate, varsInst, varsProp, varsTrunc >>

NoResult == Raised("none")

\* ------------------------------------------------------------ util.py 17-25
\* cache[args] = value
cache_store_evicting(c, args, value) == (args :> value)

cache_store(c, args, value) == (args :> value) @@ c

\* The key the memoizer looks up and stores under (util.py 22-24).
memo_key(args, kwargs) == args

\* def memoizer(*args, **kwargs)
memoizer(args, kwargs) ==
  /\ UNCHANGED << varsInst, varsProp, varsTrunc >>
  /\ ncalls < MaxCalls
  /\ ncalls' = ncalls + 1
  /\ IF memo_key(args, kwargs) \in DOMAIN cache
     THEN /\ ret' = [called |-> TRUE, args |-> args, kwargs |-> kwargs, hit |-> TRUE,
                     result |-> cache[memo_key(args, kwargs)]]
          /\ UNCHANGED << cache, computed, built, rejects_empty_diagonal >>
     ELSE /\ UNCHANGED rejects_empty_diagonal
          /\ built' = IF Bind(args, kwargs).exc # "" THEN built
                      ELSE [ran |-> TRUE, n |-> Bind(args, kwargs).n,
                            sparse_format |-> Bind(args, kwargs).sparse_format,
                            result |-> obj_call(args, kwargs)]
          /\ ret' = [called |-> TRUE, args |-> args, kwargs |-> kwargs, hit |-> FALSE,
                     result |-> obj_call(args, kwargs)]
          /\ IF IsRaised(obj_call(args, kwargs))
             THEN UNCHANGED << cache, computed >>
             ELSE /\ cache' = cache_store(cache, memo_key(args, kwargs), obj_call(args, kwargs))
                  /\ computed' = [computed EXCEPT ![memo_key(args, kwargs)] = @ + 1]

NextRate == \E c \in CallForms : memoizer(c.args, c.kwargs)

\* ================================================= util.py 48-84 and 27-45
\* Objects of a class that has two memoize_instance methods and two
\* cached_property attributes.
MaxICalls == 3     \* method calls made in one run
MaxEvals == 3      \* evaluations of cached_property functions in one run

Instances == {"a", "b"}
Methods == {"f", "g"}
Props == {"p", "q"}

\* Arguments after self: none or one positional, none or one keyword k.
MethodArgs == {<< >>, << 1 >>}
MethodKw == [k : Opt({1})]

\* self.func(*args, **kw): the value depends on the receiver, the method
\* and every argument, and on nothing else.
method_func(func, self, args, kw) == [self |-> self, func |-> func, args |-> args, kw |-> kw]

\* frozenset(kw.items())
kw_items(kw) == {<< name, kw[name][1] >> : name \in {nm \in DOMAIN kw : kw[nm] # << >>}}

\* util.py 79: key = (self.func, args[1:], frozenset(kw.items()))
instance_key_without_kw(func, rest, kw) == << func, rest, {} >>

instance_key(func, rest, kw) == << func, rest, kw_items(kw) >>

InstanceKeys == {instance_key(m, a, kw) : m \in Methods, a \in MethodArgs, kw \in MethodKw}

\* util.py 73-84: obj.method(*rest, **kw), which __get__ (util.py 69-72)
\* turns into memoize_instance.__call__(obj, *rest, **kw).
memoize_instance_call(func, obj, rest, kw) ==
  LET d == IF ocache[obj].has THEN ocache[obj].d ELSE << >>
      key == instance_key(func, rest, kw)
  IN /\ UNCHANGED << varsRate, varsProp, varsTrunc >>
     /\ nicalls < MaxICalls
     /\ nicalls' = nicalls + 1
     /\ IF key \in DOMAIN d
        THEN /\ iret' = [called |-> TRUE, bound |-> TRUE, hit |-> TRUE, obj |-> obj,
                         func |-> func, args |-> rest, kw |-> kw, result |-> d[key]]
             /\ ocache' = [ocache EXCEPT ![obj] = [has |-> TRUE, d |-> d]]
             /\ UNCHANGED icalls
        ELSE /\ iret' = [called |-> TRUE, bound |-> TRUE, hit |-> FALSE, obj |-> obj,
                         func |-> func, args |-> rest, kw |-> kw,
                         result |-> method_func(func, obj, rest, kw)]
             /\ ocache' = [ocache EXCEPT ![obj] =
                             [has |-> TRUE, d |-> (key :> method_func(func, obj, rest, kw)) @@ d]]
             /\ icalls' = [icalls EXCEPT ![obj][key] = @ + 1]

\* util.py 70-71: Class.method(obj, *rest, **kw); __get__ with obj None
\* returns the plain function, which runs uncached.
memoize_instance_unbound(func, obj, rest, kw) ==
  /\ UNCHANGED << varsRate, varsProp, varsTrunc >>
  /\ nicalls < MaxICalls
  /\ nicalls' = nicalls + 1
  /\ iret' = [called |-> TRUE, bound |-> FALSE, hit |-> FALSE, obj |-> obj,
              func |-> func, args |-> rest, kw |-> kw,
              result |-> method_func(func, obj, rest, kw)]
  /\ UNCHANGED << ocache, icalls >>

NextInst ==
  \/ \E m \in Methods, o \in Instances, a \in MethodArgs, kw \in MethodKw :
       memoize_instance_call(m, o, a, kw)
  \/ \E m \in Methods, o \in Instances, a \in MethodArgs, kw \in MethodKw :
       memoize_instance_unbound(m, o, a, kw)

\* ---------------------------------------------------------- cached_property
\* self.func(obj) on its nth run overall: a fresh value of this object.
property_func(name, obj, nth) == [self |-> obj, func |-> name, nth |-> nth]

NoValue == property_func("p", "a", 0)

\* util.py 44: obj.__dict__[self.func.__name__] = value
dict_store_nothing(d, name, value) == d

dict_store(d, name, value) == (name :> value) @@ d

\* Reading obj.name.  cached_property defines only __get__, so an entry in
\* the instance __dict__ is found first; otherwise __get__ runs
\* (util.py 41-45).
cached_property_get(obj, name) ==
  /\ UNCHANGED << varsRate, varsInst, varsTrunc >>
  /\ IF name \in DOMAIN odict[obj]
     THEN /\ pret' = [op |-> "read", obj |-> obj, name |-> name, was_stored |-> TRUE,
                      computed |-> FALSE, exc |-> "", value |-> odict[obj][name]]
          /\ UNCHANGED << odict, pcalls, evals >>
     ELSE /\ evals < MaxEvals
          /\ evals' = evals + 1
          /\ odict' = [odict EXCEPT ![obj] = dict_store(@, name, property_func(name, obj, evals + 1))]
          /\ pcalls' = [pcalls EXCEPT ![obj][name] = @ + 1]
          /\ pret' = [op |-> "read", obj |-> obj, name |-> name, was_stored |-> FALSE,
                      computed |-> TRUE, exc |-> "", value |-> property_func(name, obj, evals + 1)]

\* util.py 42-43: reading Class.name returns the descriptor itself.
cached_property_get_on_class(name) ==
  /\ UNCHANGED << varsRate, varsInst, varsTrunc >>
  /\ pret' = [op |-> "class", obj |-> "a", name |-> name, was_stored |-> FALSE,
              computed |-> FALSE, exc |-> "", value |-> NoValue]
  /\ UNCHANGED << odict, pcalls, evals >>

\* del obj.name: removes the __dict__ entry (docstring, util.py 32-33); with
\* no entry there is nothing to delete and AttributeError is raised.
cached_property_delete(obj, name) ==
  /\ UNCHANGED << varsRate, varsInst, varsTrunc >>
  /\ IF name \in DOMAIN odict[obj]
     THEN /\ odict' = [odict EXCEPT ![obj] = [nm \in (DOMAIN @) \ {name} |-> @[nm]]]
          /\ pcalls' = [pcalls EXCEPT ![obj][name] = 0]
          /\ pret' = [op |-> "del", obj |-> obj, name |-> name, was_stored |-> TRUE,
                      computed |-> FALSE, exc |-> "", value |-> NoValue]
          /\ UNCHANGED evals
     ELSE /\ pret' = [op |-> "del", obj |-> obj, name |-> name, was_stored |-> FALSE,
                      computed |-> FALSE, exc |-> "AttributeError", value |-> NoValue]
          /\ UNCHANGED << odict, pcalls, evals >>

NextProp ==
  \/ \E o \in Instances, p \in Props : cached_property_get(o, p)
  \/ \E p \in Props : cached_property_get_on_class(p)
  \/ \E o \in Instances, p \in Props : cached_property_delete(o, p)

\* ========================================================= util.py 132-155
\* truncate0(x, axis=None, strict=False, tol=1e-13) on a 1-d array.
\* Array entries are whole multiples of a unit of 1e-300 / 2, so the literal
\* 1e-300 of util.py 135 is 2 units; tol is the fraction tolnum / TolDen.
\* Products and comparisons are those of exact arithmetic: a * tol < b is
\* a * tolnum < b * TolDen.
Floor == 2         \* 1e-300
TolDen == 2        \* tol = tolnum / TolDen
MaxTolNum == 3     \* tol ranges over 0, 1/TolDen, ..., MaxTolNum/TolDen
MaxMag == 3        \* entries range over -MaxMag..MaxMag
MaxLen == 2        \* arrays have at most MaxLen entries

Arrays == UNION {[1..len -> (0 - MaxMag)..MaxMag] : len \in 0..MaxLen}

\* np.amax(x), np.amin(x) of a non-empty array
amax(arr) == CHOOSE v \in {arr[j] : j \in DOMAIN arr} : \A j \in DOMAIN arr : arr[j] <= v
amin(arr) == CHOOSE v \in {arr[j] : j \in DOMAIN arr} : \A j \in DOMAIN arr : arr[j] >= v

\* util.py 135: maxes = np.maximum(np.amax(x, axis=axis), 1e-300)
maxes_unfloored(arr) == amax(arr)

maxes(arr) == Max2(amax(arr), Floor)

\* util.py 137: mins = np.maximum(-np.amin(x,axis=axis), 0.0)
mins(arr) == Max2(0 - amin(arr), 0)

\* util.py 154: the bound 2*mins below which entries are zeroed
loose_bound_from_maxes(arr) == 2 * maxes(arr)

loose_bound(arr) == 2 * mins(arr)

truncate0(arr, strict, tolnum) ==
  IF Len(arr) = 0
  THEN [exc |-> "ValueError", out |-> arr]
  ELSE IF ~(mins(arr) * TolDen <= tolnum * maxes(arr))
  THEN [exc |-> "AssertionError", out |-> arr]
  ELSE IF strict
  THEN [exc |-> "",
        out |-> [j \in DOMAIN arr |-> IF arr[j] * TolDen < tolnum * maxes(arr) THEN 0 ELSE arr[j]]]
  ELSE [exc |-> "",
        out |-> [j \in DOMAIN arr |-> IF arr[j] < loose_bound(arr) THEN 0 ELSE arr[j]]]

NoCall == [called |-> FALSE, again |-> FALSE, strict |-> FALSE, tolnum |-> 0,
           x0 |-> << >>, exc |-> "", out |-> << >>]

truncate0_call(strict, tolnum) ==
  /\ UNCHANGED << varsRate, varsInst, varsProp >>
  /\ tr' = [called |-> TRUE,
            again |-> (tr.called /\ tr.exc = "" /\ tr.strict = strict /\ tr.tolnum = tolnum),
            strict |-> strict, tolnum |-> tolnum, x0 |-> x,
            exc |-> truncate0(x, strict, tolnum).exc,
            out |-> truncate0(x, strict, tolnum).out]
  /\ x' = truncate0(x, strict, tolnum).out

NextTrunc == \E strict \in BOOLEAN, tolnum \in 0..MaxTolNum : truncate0_call(strict, tolnum)

\* =========================================================== specifications
\* The state after import and construction: empty caches, objects with
\* nothing stored on them, no call made yet.
Init ==
  /\ rejects_empty_diagonal \in BOOLEAN
  /\ cache = << >>
  /\ computed = [k \in ArgTuples |-> 0]
  /\ built = [ran |-> FALSE, n |-> 0, sparse_format |-> "", result |-> NoResult]
  /\ ret = [called |-> FALSE, args |-> << >>,
            kwargs |-> [n |-> << >>, sparse_format |-> << >>],
            hit |-> FALSE, result |-> NoResult]
  /\ ncalls = 0
  /\ ocache = [o \in Instances |-> [has |-> FALSE, d |-> << >>]]
  /\ icalls = [o \in Instances |-> [key \in InstanceKeys |-> 0]]
  /\ iret = [called |-> FALSE, bound |-> FALSE, hit |-> FALSE, obj |-> "a", func |-> "f",
             args |-> << >>, kw |-> [k |-> << >>],
             result |-> method_func("f", "a", << >>, [k |-> << >>])]
  /\ nicalls = 0
  /\ odict = [o \in Instances |-> << >>]
  /\ pcalls = [o \in Instances |-> [p \in Props |-> 0]]
  /\ pret = [op |-> "none", obj |-> "a", name |-> "p", was_stored |-> FALSE,
             computed |-> FALSE, exc |-> "", value |-> NoValue]
  /\ evals = 0
  /\ tr = NoCall
  /\ x = << >>

\* The same, with the caller holding any array of the bounded set.
InitTrunc ==
  /\ rejects_empty_diagonal \in BOOLEAN
  /\ cache = << >>
  /\ computed = [k \in ArgTuples |-> 0]
  /\ built = [ran |-> FALSE, n |-> 0, sparse_format |-> "", result |-> NoResult]
  /\ ret = [called |-> FALSE, args |-> << >>,
            kwargs |-> [n |-> << >>, sparse_format |-> << >>],
            hit |-> FALSE, result |-> NoResult]
  /\ ncalls = 0
  /\ ocache = [o \in Instances |-> [has |-> FALSE, d |-> << >>]]
  /\ icalls = [o \in Instances |-> [key \in InstanceKeys |-> 0]]
  /\ iret = [called |-> FALSE, bound |-> FALSE, hit |-> FALSE, obj |-> "a", func |-> "f",
             args |-> << >>, kw |-> [k |-> << >>],
             result |-> method_func("f", "a", << >>, [k |-> << >>])]
  /\ nicalls = 0
  /\ odict = [o \in Instances |-> << >>]
  /\ pcalls = [o \in Instances |-> [p \in Props |-> 0]]
  /\ pret = [op |-> "none", obj |-> "a", name |-> "p", was_stored |-> FALSE,
             computed |-> FALSE, exc |-> "", value |-> NoValue]
  /\ evals = 0
  /\ tr = NoCall
  /\ x \in Arrays

\* Calls of the memoized rate_matrix.
SpecRate == Init /\ [][NextRate]_vars

\* Calls of memoize_instance methods.
SpecInst == Init /\ [][NextInst]_vars

\* Reads and deletions of cached_property attributes.
SpecProp == Init /\ [][NextProp]_vars

\* Repeated truncate0 on one array.
SpecTrunc == InitTrunc /\ [][NextTrunc]_vars

\* =================================================================== claims
\* The matrix the last run of rate_matrix's body produced, and its n.
BuiltOk == built.ran /\ ~IsRaised(built.result)

RECURSIVE RowSumTo(_, _)
RowSumTo(row, j) == IF j < 0 THEN 0 ELSE row[j] + RowSumTo(row, j - 1)

\* C1: for every n >= 0 the body of rate_matrix returns a matrix whose entry
\* (i, i+1) and entry (i, i-1) are i(n-i)/2 (2 * value = i(n-i)), whose
\* diagonal entry is the negated sum of the two off-diagonal entries of its
\* row, and which is 0 elsewhere; for n = 2 its rows are [0, 0, 0],
\* [0.5, -1.0, 0.5], [0, 0, 0].  The body returns for every n >= 1, and for
\* n = 0 unless the installed scipy rejects the empty off-diagonals.
C1_Entries ==
  /\ (built.ran /\ built.n >= 0) =>
       IsRaised(built.result) = (built.n = 0 /\ rejects_empty_diagonal)
  /\ BuiltOk =>
       /\ \A i \in 0..built.n, j \in 0..built.n :
            built.result.data[i][j] =
              IF j = i + 1 \/ j = i - 1 THEN i * (built.n - i)
              ELSE IF j = i
              THEN 0 - ( (IF i < built.n THEN built.result.data[i][i + 1] ELSE 0)
                       + (IF i > 0 THEN built.result.data[i][i - 1] ELSE 0) )
              ELSE 0
       /\ built.n = 2 =>
            /\ built.result.data[0] = [j \in 0..2 |-> 0]
            /\ built.result.data[1] = [j \in 0..2 |-> IF j = 1 THEN -2 ELSE 1]
            /\ built.result.data[2] = [j \in 0..2 |-> 0]

C1_Witness == BuiltOk /\ built.n = 3 /\ built.result.data[1][2] = 2 /\ built.result.data[2][2] = -4

\* C2: for every n >= 0 the matrix has shape (n+1, n+1), every row sums to
\* 0, every off-diagonal entry is >= 0, and rows 0 and n are all zero.
C2_Generator ==
  BuiltOk =>
    /\ built.n >= 0
    /\ built.result.shape = << built.n + 1, built.n + 1 >>
    /\ DOMAIN built.result.data = 0..built.n
    /\ \A i \in 0..built.n :
         /\ DOMAIN built.result.data[i] = 0..built.n
         /\ RowSumTo(built.result.data[i], built.n) = 0
         /\ \A j \in 0..built.n : j # i => built.result.data[i][j] >= 0
    /\ \A j \in 0..built.n :
         built.result.data[0][j] = 0 /\ built.result.data[built.n][j] = 0

C2_Witness == BuiltOk /\ built.n = 2 /\ built.result.data[1][1] < 0 /\ built.result.format = "csc"

\* C3 (as claimed): a call that returns hands back a matrix in the storage
\* format the call asked for (positionally, by keyword, or by default).
C3_RequestedFormat ==
  (ret.called /\ ~IsRaised(ret.result) /\ Bind(ret.args, ret.kwargs).exc = "")
    => ret.result.format = Bind(ret.args, ret.kwargs).sparse_format

C9_NegativeFails ==
  (ret.called /\ Bind(ret.args, ret.kwargs).exc = "" /\ Bind(ret.args, ret.kwargs).n < 0)
    => IsRaised(ret.result) /\ ret.args \notin DOMAIN cache

\* C5: memoize_instance caches per object, method and arguments: every
\* stored entry was computed once, by that object's own call of that method
\* with those arguments; nothing unstored was computed; and a call on an
\* instance always returns the value of its own (instance, method,
\* arguments) combination.
C5_PerInstance ==
  /\ \A o \in Instances, key \in InstanceKeys :
       icalls[o][key] = IF ocache[o].has /\ key \in DOMAIN ocache[o].d THEN 1 ELSE 0
  /\ \A o \in Instances : \A key \in DOMAIN ocache[o].d :
       /\ ocache[o].d[key].self = o
       /\ instance_key(ocache[o].d[key].func, ocache[o].d[key].args, ocache[o].d[key].kw) = key
  /\ (iret.called /\ iret.bound) =>
       iret.result = method_func(iret.func, iret.obj, iret.args, iret.kw)

C5_Witness ==
  /\ iret.called /\ iret.bound /\ iret.hit
  /\ \E o \in Instances \ {iret.obj} :
       instance_key(iret.func, iret.args, iret.kw) \in DOMAIN ocache[o].d

\* C6: between two deletions the function of a cached_property runs at most
\* once per instance: it has run exactly when the value is stored on the
\* instance, a read of a stored value returns it without running the
\* function, a read with nothing stored (first read, or first after a
\* deletion) runs it, and a stored value belongs to its own instance.
C6_OncePerInstance ==
  /\ \A o \in Instances, p \in Props :
       /\ pcalls[o][p] = IF p \in DOMAIN odict[o] THEN 1 ELSE 0
       /\ p \in DOMAIN odict[o] => odict[o][p].self = o /\ odict[o][p].func = p
  /\ pret.op = "read" =>
       /\ pret.computed = ~pret.was_stored
       /\ pret.name \in DOMAIN odict[pret.obj]
       /\ pret.value = odict[pret.obj][pret.name]
  /\ (pret.op = "del" /\ pret.exc = "") => pret.name \notin DOMAIN odict[pret.obj]

C6_Witness ==
  /\ pret.op = "read" /\ ~pret.computed /\ pret.value.nth = 3
  /\ \E o \in Instances \ {pret.obj} :
       pret.name \in DOMAIN odict[o] /\ odict[o][pret.name] # pret.value

\* Helpers for the truncate0 claims.
NonNegative(a) == \A j \in DOMAIN a : a[j] >= 0
NegMagnitude(a) == IF NonNegative(a) THEN 0 ELSE 0 - amin(a)

\* C7 (as claimed): truncate0 fails its assertion exactly when the magnitude
\* of the most negative entry exceeds tol times the maximum entry, and
\* otherwise returns an array without negative entries.
C7_AsClaimed ==
  (tr.called /\ Len(tr.x0) > 0) =>
    /\ (tr.exc = "AssertionError") <=> (NegMagnitude(tr.x0) * TolDen > tr.tolnum * amax(tr.x0))
    /\ tr.exc = "" => NonNegative(tr.out)

\* C7 (amended): truncate0 fails its assertion exactly when the magnitude of
\* the most negative entry exceeds tol times max(maximum entry, 1e-300), and
\* otherwise returns an array without negative entries.
C7_FlooredMax ==
  (tr.called /\ Len(tr.x0) > 0) =>
    /\ tr.exc \in {"", "AssertionError"}
    /\ (tr.exc = "AssertionError") <=>
         (NegMagnitude(tr.x0) * TolDen > tr.tolnum * Max2(amax(tr.x0), Floor))
    /\ tr.exc = "" => NonNegative(tr.out) /\ x = tr.out

C7_Witness ==
  /\ tr.called /\ tr.exc = "" /\ ~NonNegative(tr.x0) /\ Len(tr.x0) = 2
  /\ NegMagnitude(tr.x0) * TolDen > tr.tolnum * amax(tr.x0)
  /\ NonNegative(tr.out)

\* C8 (as claimed): with either value of strict, truncate0 returns a
\* non-negative array unchanged.
C8_AsClaimed ==
  (tr.called /\ Len(tr.x0) > 0 /\ NonNegative(tr.x0)) => tr.exc = "" /\ tr.out = tr.x0

\* C8 (amended): on a non-negative array truncate0 never fails; with
\* strict = False it returns the array unchanged; and with either value of
\* strict, applying it again with the same arguments changes nothing more.
C8_NonStrictUnchanged ==
  (tr.called /\ Len(tr.x0) > 0 /\ NonNegative(tr.x0)) =>
    /\ tr.exc = ""
    /\ ~tr.strict => tr.out = tr.x0
    /\ tr.again => tr.out = tr.x0

C8_Witness ==
  /\ tr.called /\ tr.again /\ tr.strict /\ tr.tolnum > 0
  /\ NonNegative(tr.x0) /\ tr.out = tr.x0 /\ x = tr.out
  /\ \E j \in DOMAIN tr.out : tr.out[j] > Floor
  /\ \E j \in DOMAIN tr.out : tr.out[j] = 0

====
